---- MODULE Spec2Model ----
(***************************************************************************)
(* Conditional SAGE cone compilers of sageopt/coniclifts:                  *)
(*   check_cones, ExpCoverHelper, PrimalCondSageCone, DualCondSageCone     *)
(* (constraints/set_membership/conditional_sage_cone.py).                  *)
(*                                                                         *)
(* Term indices are those of the source, 0..m-1.  A boolean mask (numpy    *)
(* array of dtype bool) is a function from 0..len-1 to BOOLEAN; a Python   *)
(* list of indices (U_I, N_I, P_I) is a sequence of indices.  The external *)
(* conic solver is a nondeterministic input: every call returns one of     *)
(* SolverOutcomes.                                                         *)
(***************************************************************************)
EXTENDS Integers, Sequences, FiniteSets, TLC

VARIABLES
    pc,           \* "start" | "checked" | "constructed" | "failed"
    kind,         \* "none" | "primal" | "dual": the class being constructed
    err,          \* the exception that ended the last call, or "none"
    args,         \* the arguments of the constructor call, as the caller passed them
    cc,           \* a stand-alone check_cones call: its argument before, after, and its result
    m,            \* self.m
    c,            \* self.c  (ExpCoverHelper.c)
    lifted_alpha, \* self.lifted_alpha
    K,            \* self.K
    U_I,          \* self.ech.U_I
    N_I,          \* self.ech.N_I
    P_I,          \* self.ech.P_I
    expcovers,    \* self.ech.expcovers
    warnings,     \* number of warnings.warn calls of the constructor
    solver_log,   \* the solves of _default_exp_covers: term -> cover posed, status, value
    A_shape,      \* self.A.shape: <<d, lifted_n>>
    nu_vars,      \* self.nu_vars: term -> length of the Variable
    c_vars,       \* self.c_vars: term -> length of the Variable
    relent_epi_vars, \* self.relent_epi_vars: term -> length of the Variable
    lambda_vars,  \* self.lambda_vars: term -> length of the Variable
    lifted_mu_vars, \* self.lifted_mu_vars (dual): term -> length of the Variable
    age_vectors,  \* self.age_vectors: term -> aligned vector of length m
    cone_data,    \* what the last conic_form() returned
    ret           \* what the last violation() returned, and the value of c it read

vars == <<pc, kind, err, args, cc, m, c, lifted_alpha, K, U_I, N_I, P_I, expcovers,
          warnings, solver_log, A_shape, nu_vars, c_vars, relent_epi_vars, lambda_vars,
          lifted_mu_vars, age_vectors, cone_data, ret>>

objvars == <<kind, args, m, c, lifted_alpha, K, U_I, N_I, P_I, expcovers, warnings,
             solver_log, A_shape, nu_vars, c_vars, relent_epi_vars, lambda_vars,
             lifted_mu_vars>>

(***************************************************************************)
(* Bounds of the model.                                                    *)
(***************************************************************************)
MaxM == 3        \* at most this many terms (rows of alpha)
MaxK == 2        \* at most this many blocks in a cone list given to check_cones
MaxSuppliedM == 2  \* at most this many terms when a cover map is supplied
MaxViolationM == 2  \* at most this many terms when violation() is called

(***************************************************************************)
(* Generic helpers.                                                        *)
(***************************************************************************)
SetOf(s) == {s[k] : k \in 1..Len(s)}

\* the sum of the entries of a row (a sequence of integers)
SumSeq(row) ==
    LET F[k \in 0..Len(row)] == IF k = 0 THEN 0 ELSE F[k - 1] + row[k]
    IN F[Len(row)]

MinOf(S) == CHOOSE x \in S : \A y \in S : x <= y
MaxOf(S) == CHOOSE x \in S : \A y \in S : y <= x

Length(mask) == Cardinality(DOMAIN mask)

\* np.any(mask)
np_any(mask) == \E j \in DOMAIN mask : mask[j]

\* np.count_nonzero(mask)
count_nonzero(mask) == Cardinality({j \in DOMAIN mask : mask[j]})

\* the list [i for i in range(n) if P(i)], in increasing order
ListWhere(n, P(_)) ==
    LET F[k \in 0..n] == IF k = 0 THEN << >>
                         ELSE IF P(k - 1) THEN Append(F[k - 1], k - 1) ELSE F[k - 1]
    IN F[n]

EmptyMap == [x \in {} |-> 0]

(***************************************************************************)
(* check_cones                                                             *)
(***************************************************************************)
ALLOWED_CONES == {"+", "S", "e", "0"}

Cone(type, len) == [type |-> type, len |-> len]

\* The result of check_cones(K): the exception raised or the new list, and
\* the caller's list as the call leaves it.
check_cones_careless(Kin) ==
    IF \E k \in 1..Len(Kin) : Kin[k].type \notin ALLOWED_CONES /\ k = 1
    THEN [err |-> "NotImplementedError", newK |-> << >>, K |-> Kin]
    ELSE [err |-> "none",
          newK |-> [k \in 1..Len(Kin) |-> Cone(Kin[k].type, Kin[k].len)],
          K |-> Kin]

check_cones(Kin) ==
    IF \E k \in 1..Len(Kin) : Kin[k].type \notin ALLOWED_CONES
    THEN [err |-> "NotImplementedError", newK |-> << >>, K |-> Kin]
    ELSE [err |-> "none",
          newK |-> [k \in 1..Len(Kin) |-> Cone(Kin[k].type, Kin[k].len)],
          K |-> Kin]

(***************************************************************************)
(* ExpCoverHelper: term classification.                                    *)
(* A coefficient c_i is a ScalarExpression: constant or not, and its       *)
(* offset.  c is [is_None |-> TRUE] or an Expression of m coefficients.    *)
(***************************************************************************)
Coef(const, offset) == [const |-> const, offset |-> offset]

is_constant(c_i) == c_i.const

NoneC == [is_None |-> TRUE, expr |-> EmptyMap]
Expression(e) == [is_None |-> FALSE, expr |-> e]

compute_U_I(cv, mm) ==
    IF ~cv.is_None
    THEN ListWhere(mm, LAMBDA i : (~is_constant(cv.expr[i])) \/ (cv.expr[i].offset < 0))
    ELSE ListWhere(mm, LAMBDA i : TRUE)

compute_N_I_any_negative(cv, mm) ==
    IF ~cv.is_None
    THEN ListWhere(mm, LAMBDA i : cv.expr[i].offset < 0)
    ELSE << >>

compute_N_I(cv, mm) ==
    IF ~cv.is_None
    THEN ListWhere(mm, LAMBDA i : is_constant(cv.expr[i]) /\ (cv.expr[i].offset < 0))
    ELSE << >>

compute_P_I_nonnegative(cv, mm) ==
    IF ~cv.is_None
    THEN ListWhere(mm, LAMBDA i : is_constant(cv.expr[i]) /\ (cv.expr[i].offset >= 0))
    ELSE << >>

compute_P_I(cv, mm) ==
    IF ~cv.is_None
    THEN ListWhere(mm, LAMBDA i : is_constant(cv.expr[i]) /\ (cv.expr[i].offset > 0))
    ELSE << >>

(***************************************************************************)
(* ExpCoverHelper._verify_exp_covers                                       *)
(* A value of the supplied dict is a boolean ndarray or something else.    *)
(***************************************************************************)
verify_one_uncorrected(st, i) ==
    IF st.err # "none" THEN st
    ELSE IF i \notin DOMAIN st.d
        THEN [st EXCEPT !.err = "RuntimeError"]
    ELSE IF ~st.d[i].bool_ndarray
        THEN [st EXCEPT !.err = "RuntimeError"]
    ELSE IF i \notin DOMAIN st.d[i].mask
        THEN [st EXCEPT !.err = "IndexError"]
    ELSE IF st.d[i].mask[i]
        THEN [st EXCEPT !.warnings = @ + 1]
    ELSE st

verify_one_any_dtype(st, i) ==
    IF st.err # "none" THEN st
    ELSE IF i \notin DOMAIN st.d
        THEN [st EXCEPT !.err = "RuntimeError"]
    ELSE IF i \notin DOMAIN st.d[i].mask
        THEN [st EXCEPT !.err = "IndexError"]
    ELSE IF st.d[i].mask[i]
        THEN [st EXCEPT !.d[i].mask[i] = FALSE, !.warnings = @ + 1]
    ELSE st

verify_one(st, i) ==
    IF st.err # "none" THEN st
    ELSE IF i \notin DOMAIN st.d
        THEN [st EXCEPT !.err = "RuntimeError"]
    ELSE IF ~st.d[i].bool_ndarray
        THEN [st EXCEPT !.err = "RuntimeError"]
    ELSE IF i \notin DOMAIN st.d[i].mask      \* expcovers[i][i] out of range
        THEN [st EXCEPT !.err = "IndexError"]
    ELSE IF st.d[i].mask[i]
        THEN [st EXCEPT !.d[i].mask[i] = FALSE, !.warnings = @ + 1]
    ELSE st

verify_exp_covers(d, U) ==
    LET F[k \in 0..Len(U)] ==
            IF k = 0 THEN [err |-> "none", d |-> d, warnings |-> 0]
            ELSE verify_one(F[k - 1], U[k])
    IN F[Len(U)]

(***************************************************************************)
(* ExpCoverHelper._default_exp_covers                                      *)
(***************************************************************************)
TrivialThreshold == -100

row_sum(row) == SumSeq(row)

Dot(r, s) == SumSeq([k \in DOMAIN r |-> r[k] * s[k]])

\* lines 469-474
initial_covers_keeping_negatives(mm, U, N) ==
    [i \in SetOf(U) |-> [j \in 0..mm - 1 |-> j # i]]

initial_covers(mm, U, N) ==
    [i \in SetOf(U) |-> [j \in 0..mm - 1 |-> (j \notin SetOf(N)) /\ (j # i)]]

\* line 477
reduction_applies(alpha, mm) ==
    /\ \A i \in 0..mm - 1 : \A k \in DOMAIN alpha[i] : alpha[i][k] >= 0
    /\ MinOf({row_sum(alpha[i]) : i \in 0..mm - 1}) = 0

\* line 479
zero_loc_last(alpha, mm) == MaxOf({i \in 0..mm - 1 : row_sum(alpha[i]) = 0})

zero_loc(alpha, mm) == MinOf({i \in 0..mm - 1 : row_sum(alpha[i]) = 0})

\* lines 475-487
aggressive_reduction_disabled(alpha, mm, covers) == covers

aggressive_reduction(alpha, mm, covers) ==
    IF reduction_applies(alpha, mm)
    THEN LET z == zero_loc(alpha, mm)
         IN [i \in DOMAIN covers |->
                IF i = z THEN covers[i]
                ELSE [j \in 0..mm - 1 |->
                        IF covers[i][j] /\ j # z /\ Dot(alpha[i], alpha[j]) = 0
                        THEN FALSE ELSE covers[i][j]]]
    ELSE covers

\* the terms for which lines 489-497 pose a problem to the solver
solver_calls(covers) == {i \in DOMAIN covers : np_any(covers[i])}

\* lines 488-499; sol maps each solved term to the solver's (status, value)
eliminate_trivial_ignoring_status(covers, sol) ==
    [i \in DOMAIN covers |->
        IF np_any(covers[i])
        THEN IF sol[i].value < TrivialThreshold
             THEN [j \in DOMAIN covers[i] |-> FALSE]
             ELSE covers[i]
        ELSE covers[i]]

eliminate_trivial(covers, sol) ==
    [i \in DOMAIN covers |->
        IF np_any(covers[i])
        THEN IF sol[i].status = "solved" /\ sol[i].value < TrivialThreshold
             THEN [j \in DOMAIN covers[i] |-> FALSE]
             ELSE covers[i]
        ELSE covers[i]]

presolve_covers(alpha, mm, U, N) == aggressive_reduction(alpha, mm, initial_covers(mm, U, N))

default_exp_covers(alpha, mm, U, N, sol) ==
    eliminate_trivial(presolve_covers(alpha, mm, U, N), sol)

(***************************************************************************)
(* ExpCoverHelper.__init__                                                 *)
(* e is the expcovers argument: None, a dict, or anything else.            *)
(***************************************************************************)
\* the expcovers argument: None, a dict d, or some other object
NoneArg  == [tag |-> "None", d |-> EmptyMap]
OtherArg == [tag |-> "other", d |-> EmptyMap]

ExpCoverHelper_init(alpha, cv, e, sol) ==
    LET mm == Cardinality(DOMAIN alpha)
        U  == compute_U_I(cv, mm)
        N  == compute_N_I(cv, mm)
        P  == compute_P_I(cv, mm)
        base == [err |-> "none", U_I |-> U, N_I |-> N, P_I |-> P,
                 expcovers |-> EmptyMap, warnings |-> 0, m |-> mm]
    IN IF e.tag = "dict"
       THEN LET v == verify_exp_covers(e.d, U)
            \* self.expcovers is the caller's dict, corrected in place
            IN [base EXCEPT !.err = v.err, !.warnings = v.warnings,
                            !.expcovers = [i \in DOMAIN v.d |-> v.d[i].mask]]
       ELSE IF e.tag = "None"
       THEN [base EXCEPT !.expcovers = default_exp_covers(alpha, mm, U, N, sol)]
       ELSE [base EXCEPT !.err = "RuntimeError"]

(***************************************************************************)
(* PrimalCondSageCone._initialize_variables (lines 97-117) and             *)
(* DualCondSageCone._initialize_variables (lines 309-323): the shapes of   *)
(* the Variables created per must-certify term.                            *)
(***************************************************************************)
NoVars == [nu_vars |-> EmptyMap, c_vars |-> EmptyMap, relent_epi_vars |-> EmptyMap,
           lambda_vars |-> EmptyMap, lifted_mu_vars |-> EmptyMap]

primal_initialize_variables_extra_entry(mm, ech, shape) ==
    IF mm > 1
    THEN LET U == SetOf(ech.U_I)
             nu_len(i) == count_nonzero(ech.expcovers[i])
             covered == {i \in U : nu_len(i) > 0}
         IN [NoVars EXCEPT
                !.nu_vars = [i \in covered |-> nu_len(i)],
                !.relent_epi_vars = [i \in covered |-> nu_len(i)],
                !.c_vars = [i \in U |-> nu_len(i) + 1],
                !.lambda_vars = [i \in U |-> shape[1]]]
    ELSE NoVars

primal_initialize_variables(mm, ech, shape) ==
    IF mm > 1
    THEN LET U == SetOf(ech.U_I)
             nu_len(i) == count_nonzero(ech.expcovers[i])
             covered == {i \in U : nu_len(i) > 0}
         IN [NoVars EXCEPT
                !.nu_vars = [i \in covered |-> nu_len(i)],
                !.relent_epi_vars = [i \in covered |-> nu_len(i)],
                !.c_vars = [i \in U |-> IF i \notin SetOf(ech.N_I)
                                        THEN nu_len(i) + 1 ELSE nu_len(i)],
                !.lambda_vars = [i \in U |-> shape[1]]]
    ELSE NoVars

dual_initialize_variables(mm, ech, shape) ==
    IF mm > 1
    THEN LET U == SetOf(ech.U_I)
             num_cover(i) == count_nonzero(ech.expcovers[i])
             covered == {i \in U : num_cover(i) > 0}
         IN [NoVars EXCEPT
                !.lifted_mu_vars = [i \in U |-> shape[2]],
                !.relent_epi_vars = [i \in covered |-> num_cover(i)]]
    ELSE NoVars

\* lines 78-82, 291-293: zero-pad alpha to the width of A
lift(alpha, lifted_n) ==
    [i \in DOMAIN alpha |->
        [k \in 1..(IF lifted_n > Len(alpha[i]) THEN lifted_n ELSE Len(alpha[i])) |->
            IF k <= Len(alpha[i]) THEN alpha[i][k] ELSE 0]]

(***************************************************************************)
(* PrimalCondSageCone._build_aligned_age_vectors (lines 119-129).          *)
(* An entry of an age vector is the constant 0, a component of c_vars[i],  *)
(* or the coefficient c[i] itself.                                         *)
(***************************************************************************)
ZeroEntry == [t |-> "zero", i |-> 0, k |-> 0]
CVarEntry(i, k) == [t |-> "c_var", i |-> i, k |-> k]
CoefEntry(i) == [t |-> "c", i |-> i, k |-> 0]

\* position of the j-th mask entry among the True entries
rank(mask, j) == Cardinality({l \in DOMAIN mask : l < j /\ mask[l]})

aligned_age_vector(mm, i, mask, N, c_len) ==
    [j \in 0..mm - 1 |->
        IF j = i THEN (IF i \in SetOf(N) THEN CoefEntry(i) ELSE CVarEntry(i, c_len - 1))
        ELSE IF mask[j] THEN CVarEntry(i, rank(mask, j))
        ELSE ZeroEntry]

\* Boolean indexing with a mask whose length is not m raises IndexError;
\* the vectors stored before the exception stay in self.age_vectors.
build_one(st, mm, i, covers, N, cvars) ==
    IF st.err # "none" THEN st
    ELSE IF Length(covers[i]) # mm THEN [st EXCEPT !.err = "IndexError"]
    ELSE [st EXCEPT !.age_vectors =
            [x \in DOMAIN st.age_vectors \cup {i} |->
                IF x = i THEN aligned_age_vector(mm, i, covers[i], N, cvars[i])
                ELSE st.age_vectors[x]]]

build_aligned_age_vectors_storing_nothing(old, mm, U, N, covers, cvars) ==
    [err |-> "none", age_vectors |-> old]

build_aligned_age_vectors(old, mm, U, N, covers, cvars) ==
    LET F[k \in 0..Len(U)] ==
            IF k = 0 THEN [err |-> "none", age_vectors |-> old]
            ELSE build_one(F[k - 1], mm, U[k], covers, N, cvars)
    IN F[Len(U)]

(***************************************************************************)
(* PrimalCondSageCone.conic_form (lines 206-224): the blocks returned,     *)
(* in order.                                                               *)
(***************************************************************************)
Block(b, i) == [b |-> b, i |-> i]

\* _age_rel_ent_cone_data (lines 131-144): a sum_relent block when the cover
\* is nonempty, else the linear inequality lambda_i @ b <= age_vectors[i][i]
age_rel_ent_cone_data(i, mask) ==
    IF np_any(mask) THEN Block("rel_ent", i) ELSE Block("lin_ineq", i)

\* _age_lin_eq_cone_data (lines 146-162): the offset vector b has num_rows
\* zeros and K is one zero cone of num_rows.  mat1 is the transposed
\* (alpha[idx_set] - alpha[i]), with as many rows as lifted_alpha has
\* columns, and mat2 = -A.T has as many rows as A has columns.
age_lin_eq_cone_data(i, mask, la, shape) ==
    LET mat1_rows == Len(la[i])
        mat2_rows == shape[2]
        num_rows  == IF np_any(mask) THEN mat1_rows + mat2_rows ELSE mat2_rows
    IN [b |-> "lin_eq", i |-> i, offset_len |-> num_rows, K |-> <<Cone("0", num_rows)>>]

RECURSIVE age_blocks(_, _, _, _)
age_blocks(U, covers, la, shape) ==
    IF U = << >> THEN << >>
    ELSE <<age_rel_ent_cone_data(Head(U), covers[Head(U)]),
           age_lin_eq_cone_data(Head(U), covers[Head(U)], la, shape),
           Block("lambda_dom", Head(U))>>
         \o age_blocks(Tail(U), covers, la, shape)

primal_cone_data_unordered(mm, U, covers, la, shape) ==
    IF mm > 1 THEN <<Block("sum_to_c", -1)>> \o age_blocks(U, covers, la, shape)
    ELSE <<Block("c_nonneg", -1)>>

primal_cone_data(mm, U, covers, la, shape) ==
    IF mm > 1 THEN Append(age_blocks(U, covers, la, shape), Block("sum_to_c", -1))
    ELSE <<Block("c_nonneg", -1)>>

(***************************************************************************)
(* DualCondSageCone._dual_age_cone_data (lines 325-359) and                *)
(* DualCondSageCone.conic_form (lines 393-409).  A block keeps its kind,   *)
(* the term it belongs to, the indices of v it constrains (over) and, for  *)
(* the background block, its cone list.                                    *)
(***************************************************************************)
DualBlock(b, i, over, cones) == [b |-> b, i |-> i, over |-> over, K |-> cones]

dual_age_cone_data_always_three(i, mask, mm, cones) ==
    LET cur_K == [k \in 1..Len(cones) |-> Cone(cones[k].type, cones[k].len)]
        background == DualBlock("background", i, {i}, cur_K)
    IN IF Length(mask) # mm /\ count_nonzero(mask) > 0
       THEN [err |-> "IndexError", blocks |-> << >>]
       ELSE [err |-> "none",
             blocks |-> <<DualBlock("elementwise_relent", i,
                                    {i} \cup {j \in DOMAIN mask : mask[j]}, << >>),
                          DualBlock("lin_ineq", i, {}, << >>),
                          background>>]

dual_age_cone_data(i, mask, mm, cones) ==
    LET len_sel == count_nonzero(mask)
        cur_K == [k \in 1..Len(cones) |-> Cone(cones[k].type, cones[k].len)]
        background == DualBlock("background", i, {i}, cur_K)
    IN IF len_sel > 0
       \* self.v[selector] with a mask whose length is not m raises IndexError
       THEN IF Length(mask) # mm THEN [err |-> "IndexError", blocks |-> << >>]
            ELSE [err |-> "none",
                  blocks |-> <<DualBlock("elementwise_relent", i,
                                         {i} \cup {j \in DOMAIN mask : mask[j]}, << >>),
                               DualBlock("lin_ineq", i, {}, << >>),
                               background>>]
       ELSE [err |-> "none", blocks |-> <<background>>]

dual_cone_data(mm, U, P, covers, cones) ==
    IF mm > 1
    THEN LET nontrivial_I == SetOf(U \o P)
             F[k \in 0..Len(U)] ==
                IF k = 0
                THEN [err |-> "none",
                      blocks |-> <<DualBlock("v_nonneg", -1, nontrivial_I, << >>)>>]
                ELSE IF F[k - 1].err # "none" THEN F[k - 1]
                ELSE LET curr_age == dual_age_cone_data(U[k], covers[U[k]], mm, cones)
                     IN IF curr_age.err # "none" THEN [err |-> curr_age.err, blocks |-> << >>]
                        ELSE [err |-> "none", blocks |-> F[k - 1].blocks \o curr_age.blocks]
         IN F[Len(U)]
    ELSE [err |-> "none", blocks |-> <<DualBlock("v_nonneg", -1, 0..mm - 1, << >>)>>]

(***************************************************************************)
(* PrimalCondSageCone.violation, m = 1 (lines 241, 266-269).               *)
(* c = self.c.value is a fresh array; residual = c.reshape((-1,)) is a     *)
(* view of it, so clearing the nonnegative entries of residual clears      *)
(* them in c.                                                              *)
(***************************************************************************)
AbsVal(x) == IF x < 0 THEN -x ELSE x

norm(vec) == IF DOMAIN vec = {} THEN 0
             ELSE CHOOSE x \in {AbsVal(vec[i]) : i \in DOMAIN vec} :
                     \A i \in DOMAIN vec : AbsVal(vec[i]) <= x

clip_nonneg(vec) == [i \in DOMAIN vec |-> IF vec[i] >= 0 THEN 0 ELSE vec[i]]

violation_m1_copy(cval) ==
    LET residual == clip_nonneg(cval)
        c_after  == cval
    IN norm(c_after)

violation_m1(cval) ==
    LET residual == clip_nonneg(cval)
        c_after  == residual
    IN norm(c_after)

(***************************************************************************)
(* PrimalCondSageCone.project (lines 226-238).  A nonnegative item is in   *)
(* the cone.  Otherwise a temporary compiler over a free vector is built   *)
(* with default covers, whose construction solves one elimination problem  *)
(* for every term whose cover came out of the aggressive reduction         *)
(* nonempty (answers tsol), and the projection problem is solved once      *)
(* (answer po); prob.value is returned whatever the status.  project is a  *)
(* static method: own, the cover helper of the calling compiler, is not    *)
(* within its reach.                                                       *)
(***************************************************************************)
\* a solver call that was not made
NoSolve == [called |-> FALSE, status |-> "none", value |-> 0]

FreeC(mm) == Expression([i \in 0..mm - 1 |-> Coef(FALSE, 0)])

NoProject == [value |-> 0, solves |-> 0, temp_log |-> EmptyMap, proj |-> NoSolve,
              by |-> "none"]

temp_compiler(la, tsol) ==
    LET mm == Cardinality(DOMAIN la)
        U  == compute_U_I(FreeC(mm), mm)
        N  == compute_N_I(FreeC(mm), mm)
        pre == presolve_covers(la, mm, U, N)
    IN [ech |-> ExpCoverHelper_init(la, FreeC(mm), NoneArg, tsol),
        log |-> [i \in solver_calls(pre) |-> tsol[i]]]

project_sharing_helper(item, la, own, tsol, po) ==
    IF \A i \in DOMAIN item : item[i] >= 0
    THEN [NoProject EXCEPT !.by = "nonnegative"] @@ [own |-> own]
    ELSE LET temp == temp_compiler(la, tsol)
         IN [value |-> po.value,
             solves |-> Cardinality(DOMAIN temp.log) + 1,
             temp_log |-> temp.log,
             proj |-> [called |-> TRUE, status |-> po.status, value |-> po.value],
             by |-> "projection",
             own |-> [U_I |-> temp.ech.U_I, N_I |-> temp.ech.N_I, P_I |-> temp.ech.P_I,
                      expcovers |-> temp.ech.expcovers]]

project_without_presolve(item, la, own, tsol, po) ==
    IF \A i \in DOMAIN item : item[i] >= 0
    THEN [NoProject EXCEPT !.by = "nonnegative"] @@ [own |-> own]
    ELSE [value |-> po.value,
          solves |-> 1,
          temp_log |-> EmptyMap,
          proj |-> [called |-> TRUE, status |-> po.status, value |-> po.value],
          by |-> "projection",
          own |-> own]

project(item, la, own, tsol, po) ==
    IF \A i \in DOMAIN item : item[i] >= 0
    THEN [NoProject EXCEPT !.by = "nonnegative"] @@ [own |-> own]
    ELSE LET temp == temp_compiler(la, tsol)
         IN [value |-> po.value,
             solves |-> Cardinality(DOMAIN temp.log) + 1,
             temp_log |-> temp.log,
             proj |-> [called |-> TRUE, status |-> po.status, value |-> po.value],
             by |-> "projection",
             own |-> own]

(***************************************************************************)
(* PrimalCondSageCone._age_violation (lines 170-190) and                   *)
(* PrimalCondSageCone.violation (lines 240-270).  Of the values read the   *)
(* model keeps c.value (cval) and what the norms and projections outside   *)
(* this file make of the rest: rin.sum_to_c is sum_to_c_viol, rin.age[i]   *)
(* the total violation of term i, which may be infinite.                   *)
(***************************************************************************)
\* c_i[idx_set] with a mask whose length is not m raises IndexError;
\* float() of c_vars[i].value raises TypeError unless it has one entry
age_violation(i, mask, mm, c_var_len, av) ==
    IF np_any(mask)
    THEN IF Length(mask) # mm THEN [err |-> "IndexError", viol |-> av]
         ELSE [err |-> "none", viol |-> av]
    ELSE IF c_var_len # 1 THEN [err |-> "TypeError", viol |-> av]
         ELSE [err |-> "none", viol |-> av]

NoRough == [sum_to_c |-> 0, age |-> EmptyMap]
NoProjectInput == [tsol |-> EmptyMap, po |-> NoSolve]

rough_violation(mm, U, covers, avs, cvars, la, own, cval, rin, pin) ==
    LET F[k \in 0..Len(U)] ==
            IF k = 0 THEN "none"
            ELSE IF F[k - 1] # "none" THEN F[k - 1]
            \* age_vectors[i] of a term conic_form() has not stored
            ELSE IF U[k] \notin DOMAIN avs THEN "KeyError"
            ELSE age_violation(U[k], covers[U[k]], mm, cvars[U[k]], rin.age[U[k]]).err
        e == F[Len(U)]
        age_viols == [i \in SetOf(U) |-> rin.age[i]]
        finite == {i \in SetOf(U) : ~age_viols[i].inf}
        sum_finite == SumSeq([k \in 1..Len(U) |->
                                IF age_viols[U[k]].inf THEN 0 ELSE age_viols[U[k]].val])
    IN IF e # "none" THEN [NoProject EXCEPT !.by = "raised"] @@ [own |-> own, err |-> e]
       ELSE IF \E i \in SetOf(U) : age_viols[i].inf
       THEN LET p == project(cval, la, own, pin.tsol, pin.po)
            IN [p EXCEPT !.value = rin.sum_to_c + sum_finite + p.value,
                         !.by = "rough+" \o p.by] @@ [err |-> "none"]
       \* np.max of an empty array
       ELSE IF U = << >> THEN [NoProject EXCEPT !.by = "raised"]
                              @@ [own |-> own, err |-> "ValueError"]
       ELSE [NoProject EXCEPT
                !.value = rin.sum_to_c + MaxOf({age_viols[i].val : i \in SetOf(U)}),
                !.by = "rough"] @@ [own |-> own, err |-> "none"]

primal_violation_by_own_covers(mm, U, covers, avs, cvars, la, own, rough, cval, rin, pin) ==
    IF mm > 1
    THEN IF ~rough
         THEN IF \A i \in SetOf(U) : ~np_any(covers[i])
              THEN [NoProject EXCEPT !.by = "nonnegative"] @@ [own |-> own, err |-> "none"]
              ELSE project(cval, la, own, pin.tsol, pin.po) @@ [err |-> "none"]
         ELSE rough_violation(mm, U, covers, avs, cvars, la, own, cval, rin, pin)
    ELSE [NoProject EXCEPT !.value = violation_m1(cval), !.by = "degenerate"]
         @@ [own |-> own, err |-> "none"]

primal_violation(mm, U, covers, avs, cvars, la, own, rough, cval, rin, pin) ==
    IF mm > 1
    THEN IF ~rough
         THEN project(cval, la, own, pin.tsol, pin.po) @@ [err |-> "none"]
         ELSE rough_violation(mm, U, covers, avs, cvars, la, own, cval, rin, pin)
    ELSE [NoProject EXCEPT !.value = violation_m1(cval), !.by = "degenerate"]
         @@ [own |-> own, err |-> "none"]


(***************************************************************************)
(* DualCondSageCone._dual_age_cone_violation (lines 361-388) and           *)
(* DualCondSageCone.violation (lines 411-418).                             *)
(* Of the values read (v, mu_i) the model keeps what the routines outside  *)
(* this file make of them: inp.relent is the norm of the clipped relative  *)
(* entropy residual, inp.AbK the distance of A mu_i + v_i b from K.  The   *)
(* solver's answer to the feasibility problem is out; its value is in      *)
(* units of 1e-8.                                                          *)
(***************************************************************************)
FeasTol == 10

NoTerm == [err |-> "none", viol |-> 0, rough_viol |-> 0, solve |-> NoSolve]

dual_age_cone_violation_ignoring_status(mask, mm, rough, inp, out) ==
    LET len_sel   == count_nonzero(mask)
        curr_viol == inp.relent + inp.AbK
    IN IF len_sel > 0
       THEN IF Length(mask) # mm THEN [NoTerm EXCEPT !.err = "IndexError"]
            ELSE IF curr_viol > 0 /\ ~rough
            THEN [NoTerm EXCEPT
                    !.rough_viol = curr_viol,
                    !.solve = [called |-> TRUE, status |-> out.status, value |-> out.value],
                    !.viol = IF AbsVal(out.value) < FeasTol THEN 0 ELSE curr_viol]
            ELSE [NoTerm EXCEPT !.rough_viol = curr_viol, !.viol = curr_viol]
       ELSE NoTerm

dual_age_cone_violation(mask, mm, rough, inp, out) ==
    LET len_sel   == count_nonzero(mask)
        curr_viol == inp.relent + inp.AbK
    IN IF len_sel > 0
       \* v[selector] with a mask whose length is not m raises IndexError
       THEN IF Length(mask) # mm THEN [NoTerm EXCEPT !.err = "IndexError"]
            ELSE IF curr_viol > 0 /\ ~rough
            THEN [NoTerm EXCEPT
                    !.rough_viol = curr_viol,
                    !.solve = [called |-> TRUE, status |-> out.status, value |-> out.value],
                    !.viol = IF out.status = "solved" /\ AbsVal(out.value) < FeasTol
                             THEN 0 ELSE curr_viol]
            ELSE [NoTerm EXCEPT !.rough_viol = curr_viol, !.viol = curr_viol]
       ELSE NoTerm

\* the loop over U_I stops at the first term that raises; max() of an empty
\* list raises ValueError
dual_violation(mm, U, covers, rough, inp, out) ==
    LET F[k \in 0..Len(U)] ==
            IF k = 0 THEN [err |-> "none", terms |-> EmptyMap]
            ELSE IF F[k - 1].err # "none" THEN F[k - 1]
            ELSE LET i == U[k]
                     t == dual_age_cone_violation(covers[i], mm, rough, inp[i],
                              IF i \in DOMAIN out THEN out[i] ELSE NoSolve)
                 IN IF t.err # "none" THEN [F[k - 1] EXCEPT !.err = t.err]
                    ELSE [F[k - 1] EXCEPT !.terms =
                            [x \in DOMAIN F[k - 1].terms \cup {i} |->
                                IF x = i THEN t ELSE F[k - 1].terms[x]]]
        r == F[Len(U)]
    IN IF r.err # "none" THEN [err |-> r.err, terms |-> r.terms, value |-> 0]
       ELSE IF U = << >> THEN [err |-> "ValueError", terms |-> r.terms, value |-> 0]
       ELSE [err |-> "none", terms |-> r.terms,
             value |-> MaxOf({r.terms[i].viol : i \in SetOf(U)})]

(***************************************************************************)
(* The inputs of the calls.                                                *)
(***************************************************************************)
\* cone lists given to a stand-alone check_cones call ("P" is not supported)
ConeChoices == {Cone(t, 1) : t \in ALLOWED_CONES \cup {"P"}} \cup {Cone("e", 3), Cone("S", 3)}

RECURSIVE ConeLists(_)
ConeLists(n) == IF n = 0 THEN {<< >>}
                ELSE ConeLists(n - 1) \cup
                     {Append(l, co) : l \in {x \in ConeLists(n - 1) : Len(x) = n - 1},
                                      co \in ConeChoices}

\* background systems (A, b, K) given to the constructors; of A only the shape matters
PlainBg       == [K |-> <<Cone("+", 1)>>, A_shape |-> <<1, 2>>]
LiftedBg      == [K |-> <<Cone("0", 1), Cone("e", 3)>>, A_shape |-> <<4, 3>>]
UnsupportedBg == [K |-> <<Cone("+", 1), Cone("P", 1)>>, A_shape |-> <<2, 2>>]
Backgrounds   == {PlainBg, LiftedBg, UnsupportedBg}

\* exponent matrices: every row is one of AlphaRows
AlphaRows == {<<0, 0>>, <<1, 0>>, <<0, 1>>, <<0, -1>>}
AllAlpha(mm) == [0..mm - 1 -> AlphaRows]
FixedAlpha(mm) == [i \in 0..mm - 1 |-> <<i, 0>>]

\* coefficients: constants of either sign and zero, and non-constant expressions
MainCoefs == {Coef(TRUE, -1), Coef(TRUE, 2), Coef(FALSE, 0)}
Coefs == MainCoefs \cup {Coef(TRUE, 0), Coef(FALSE, -1)}
CVecs(mm, cs) == {Expression(e) : e \in [0..mm - 1 -> cs]}

\* values of a supplied cover map: boolean masks of length m (all False, all
\* True), of length m + 1 and of length 1, and a value that is no boolean array
MaskOf(len, v) == [j \in 0..len - 1 |-> v]
CoverValues(mm) ==
    {[bool_ndarray |-> TRUE, mask |-> MaskOf(mm, FALSE)],
     [bool_ndarray |-> TRUE, mask |-> MaskOf(mm, TRUE)],
     [bool_ndarray |-> TRUE, mask |-> MaskOf(mm + 1, FALSE)],
     [bool_ndarray |-> TRUE, mask |-> MaskOf(1, TRUE)],
     [bool_ndarray |-> FALSE, mask |-> MaskOf(mm, FALSE)]}

DictArgs(mm) == {[tag |-> "dict", d |-> d] :
                    d \in UNION {[S -> CoverValues(mm)] : S \in SUBSET (0..mm - 1)}}
FalseDict(mm) == [tag |-> "dict",
                  d |-> [i \in 0..mm - 1 |-> [bool_ndarray |-> TRUE, mask |-> MaskOf(mm, FALSE)]]]

\* what the solver may answer to a problem of _default_exp_covers
SolverOutcomes == {[status |-> "solved", value |-> -101],
                   [status |-> "solved", value |-> -100],
                   [status |-> "failed", value |-> -101]}

\* values a non-constant coefficient may take when violation() reads c.value
Values == {-1, 0, 2}

\* values of v read by the dual violation(): the same value in every entry
VVecs(mm) == {[i \in 0..mm - 1 |-> x] : x \in Values}

\* per term, the clipped relative entropy residual and the distance of
\* A mu_i + v_i b from K; a term with an empty cover has no residual
TermInputs(U, covers) ==
    {inp \in [SetOf(U) -> {[relent |-> 0, AbK |-> 0], [relent |-> 1, AbK |-> 0],
                            [relent |-> 0, AbK |-> 1]}] :
        \A i \in SetOf(U) : ~np_any(covers[i]) => inp[i].relent = 0}

\* what the solver may answer to a feasibility problem of the dual violation
FeasOutcomes == {[status |-> "solved", value |-> 0],
                 [status |-> "solved", value |-> -FeasTol],
                 [status |-> "failed", value |-> 0]}

\* the terms whose feasibility problem the dual violation poses
dual_solves(U, covers, rough, inp) ==
    {i \in SetOf(U) : np_any(covers[i]) /\ inp[i].relent + inp[i].AbK > 0 /\ ~rough}

\* what the rough primal violation makes of the values it reads
AgeViols == {[inf |-> FALSE, val |-> 0], [inf |-> FALSE, val |-> 1], [inf |-> TRUE, val |-> 0]}
RoughInputs(mm, U, avs, rough) ==
    IF mm > 1 /\ rough
    THEN {[sum_to_c |-> s, age |-> a] :
            s \in {0, 1}, a \in [SetOf(U) \cap DOMAIN avs -> AgeViols]}
    ELSE {NoRough}

\* what the solver may answer to the projection problem, and to the
\* elimination problems of the temporary compiler (the same answer to each
\* of them: they decide the temporary covers only)
ProjOutcomes == {[status |-> "solved", value |-> 1], [status |-> "failed", value |-> 3]}
ProjectInputs(mm, la, cval, rough, rin) ==
    IF /\ mm > 1
       /\ ~rough \/ \E i \in DOMAIN rin.age : rin.age[i].inf
       /\ \E i \in DOMAIN cval : cval[i] < 0
    THEN {[tsol |-> [i \in solver_calls(presolve_covers(la, mm, compute_U_I(FreeC(mm), mm),
                                                        compute_N_I(FreeC(mm), mm))) |-> t],
           po |-> o] :
            t \in SolverOutcomes, o \in ProjOutcomes}
    ELSE {NoProjectInput}

(***************************************************************************)
(* State.                                                                  *)
(***************************************************************************)
NoArgs == [c |-> NoneC, alpha |-> EmptyMap, bg |-> [K |-> << >>, A_shape |-> <<0, 0>>],
           expcovers |-> NoneArg]
NoCC   == [called |-> FALSE, K_in |-> << >>, K_after |-> << >>, err |-> "none", newK |-> << >>]
\* the last violation() call: its arguments, the values it read, the solver
\* calls it made and what it returned (value) or raised (err)
NoRet  == [called |-> FALSE, err |-> "none", value |-> 0, c_value |-> EmptyMap,
           rough |-> FALSE, v_value |-> EmptyMap, read |-> EmptyMap,
           terms |-> EmptyMap, solves |-> 0, temp_log |-> EmptyMap,
           proj |-> NoSolve, by |-> "none"]

NoObject ==
    /\ m' = 0 /\ c' = NoneC /\ lifted_alpha' = EmptyMap /\ K' = << >>
    /\ U_I' = << >> /\ N_I' = << >> /\ P_I' = << >> /\ expcovers' = EmptyMap
    /\ warnings' = 0 /\ solver_log' = EmptyMap /\ A_shape' = <<0, 0>>
    /\ nu_vars' = EmptyMap /\ c_vars' = EmptyMap /\ relent_epi_vars' = EmptyMap
    /\ lambda_vars' = EmptyMap /\ lifted_mu_vars' = EmptyMap

Init ==
    /\ pc = "start" /\ kind = "none" /\ err = "none"
    /\ args = NoArgs /\ cc = NoCC
    /\ m = 0 /\ c = NoneC /\ lifted_alpha = EmptyMap /\ K = << >>
    /\ U_I = << >> /\ N_I = << >> /\ P_I = << >> /\ expcovers = EmptyMap
    /\ warnings = 0 /\ solver_log = EmptyMap /\ A_shape = <<0, 0>>
    /\ nu_vars = EmptyMap /\ c_vars = EmptyMap /\ relent_epi_vars = EmptyMap
    /\ lambda_vars = EmptyMap /\ lifted_mu_vars = EmptyMap
    /\ age_vectors = EmptyMap /\ cone_data = << >> /\ ret = NoRet

(***************************************************************************)
(* A stand-alone call check_cones(K).                                      *)
(***************************************************************************)
CheckCones ==
    /\ pc = "start"
    /\ \E Kin \in ConeLists(MaxK) :
        LET r == check_cones(Kin)
        IN /\ cc' = [called |-> TRUE, K_in |-> Kin, K_after |-> r.K,
                     err |-> r.err, newK |-> r.newK]
           /\ err' = r.err
    /\ pc' = "checked"
    /\ UNCHANGED <<objvars, age_vectors, cone_data, ret>>

(***************************************************************************)
(* The constructors (lines 53-95, 278-307).  The solver answers of         *)
(* _default_exp_covers are drawn for exactly the terms it solves for.      *)
(***************************************************************************)
\* the covers _default_exp_covers poses to the solver (none when a cover map
\* or a non-dict is supplied)
posed_covers(la, cv, e) ==
    IF e.tag = "None"
    THEN LET mm == Cardinality(DOMAIN la)
             pre == presolve_covers(la, mm, compute_U_I(cv, mm), compute_N_I(cv, mm))
         IN [i \in solver_calls(pre) |-> pre[i]]
    ELSE EmptyMap

Construct(knd, alpha, cv, bg, e) ==
    /\ kind' = knd
    /\ args' = [c |-> cv, alpha |-> alpha, bg |-> bg, expcovers |-> e]
    /\ UNCHANGED <<cc, age_vectors, cone_data, ret>>
    /\ \E chk \in {check_cones(bg.K)} :
        IF chk.err # "none"
        THEN /\ pc' = "failed" /\ err' = chk.err /\ NoObject
        ELSE \E la \in {lift(alpha, bg.A_shape[2])} :
             \E posed \in {posed_covers(la, cv, e)} :
             \E sol \in [DOMAIN posed -> SolverOutcomes] :
             \E ech \in {ExpCoverHelper_init(la, cv, e, sol)} :
                IF ech.err # "none"
                THEN /\ pc' = "failed" /\ err' = ech.err /\ NoObject
                ELSE \E vs \in {IF knd = "primal"
                                THEN primal_initialize_variables(ech.m, ech, bg.A_shape)
                                ELSE dual_initialize_variables(ech.m, ech, bg.A_shape)} :
                     /\ pc' = "constructed" /\ err' = "none"
                     /\ m' = ech.m /\ c' = cv /\ lifted_alpha' = la /\ K' = chk.newK
                     /\ A_shape' = bg.A_shape
                     /\ U_I' = ech.U_I /\ N_I' = ech.N_I /\ P_I' = ech.P_I
                     /\ expcovers' = ech.expcovers /\ warnings' = ech.warnings
                     /\ solver_log' = [i \in DOMAIN sol |->
                                         [cover |-> posed[i], status |-> sol[i].status,
                                          value |-> sol[i].value]]
                     /\ nu_vars' = vs.nu_vars /\ c_vars' = vs.c_vars
                     /\ relent_epi_vars' = vs.relent_epi_vars
                     /\ lambda_vars' = vs.lambda_vars
                     /\ lifted_mu_vars' = vs.lifted_mu_vars

\* The constructor calls explored:
\*   default covers over every exponent matrix and the plain background;
\*   supplied cover maps and non-dict arguments (m <= MaxSuppliedM);
\*   every kind of coefficient over every background system.
\* Exponents are read by default cover construction only, so the other
\* calls take one exponent matrix per m.
DefaultCalls(knd, cs(_)) ==
    \E mm \in 1..MaxM : \E alpha \in AllAlpha(mm) : \E cv \in cs(mm) :
        Construct(knd, alpha, cv, PlainBg, NoneArg)

SuppliedCalls(knd, cs(_)) ==
    \E mm \in 1..MaxSuppliedM : \E e \in DictArgs(mm) \cup {OtherArg} : \E cv \in cs(mm) :
        Construct(knd, FixedAlpha(mm), cv, PlainBg, e)

BackgroundCalls(knd) ==
    \E mm \in 1..MaxM : \E bg \in Backgrounds : \E e \in {NoneArg, FalseDict(mm)} :
        \E cv \in CVecs(mm, Coefs) :
            Construct(knd, FixedAlpha(mm), cv, bg, e)

MainCVecs(mm) == CVecs(mm, MainCoefs)
SuppliedCVecs(mm) == CVecs(mm, MainCoefs \cup {Coef(TRUE, 0)})
NoCVec(mm) == {NoneC}

\* PrimalCondSageCone(c, alpha, A, b, K, name, expcovers)
NewPrimal ==
    /\ pc = "start"
    /\ \/ DefaultCalls("primal", MainCVecs)
       \/ SuppliedCalls("primal", SuppliedCVecs)
       \/ BackgroundCalls("primal")

\* DualCondSageCone(v, alpha, A, b, K, name, c, expcovers); c = None is the
\* dual's own case
NewDual ==
    /\ pc = "start"
    /\ \/ DefaultCalls("dual", NoCVec)
       \/ SuppliedCalls("dual", SuppliedCVecs)
       \/ SuppliedCalls("dual", NoCVec)
       \/ BackgroundCalls("dual")

(***************************************************************************)
(* The constructor calls explored together with violation():               *)
(* m <= MaxViolationM, the plain background, two exponent matrices (one    *)
(* with pairwise orthogonal rows), default covers or an all-False map.     *)
(***************************************************************************)
OrthAlpha(mm) == [i \in 0..mm - 1 |-> IF i = 0 THEN <<0, 0>>
                                       ELSE IF i % 2 = 1 THEN <<1, 0>> ELSE <<0, 1>>]

ViolationCalls(knd, cs(_)) ==
    \E mm \in 1..MaxViolationM : \E alpha \in {FixedAlpha(mm), OrthAlpha(mm)} :
    \E e \in {NoneArg, FalseDict(mm)} : \E cv \in cs(mm) :
        Construct(knd, alpha, cv, PlainBg, e)

NewPrimalForViolation == pc = "start" /\ ViolationCalls("primal", MainCVecs)

NegativeOrNone(mm) == {NoneC} \cup CVecs(mm, {Coef(TRUE, -1), Coef(TRUE, 2)})

NewDualForViolation == pc = "start" /\ ViolationCalls("dual", NegativeOrNone)

(***************************************************************************)
(* PrimalCondSageCone.conic_form()                                         *)
(***************************************************************************)
PrimalConicForm ==
    /\ pc = "constructed" /\ kind = "primal"
    /\ IF m > 1
       THEN LET r == build_aligned_age_vectors(age_vectors, m, U_I, N_I, expcovers, c_vars)
            IN /\ age_vectors' = r.age_vectors
               /\ IF r.err # "none"
                  THEN err' = r.err /\ cone_data' = << >>
                  ELSE IF U_I = << >>
                  \* aff.vstack of an empty list: a routine outside this file
                  THEN \/ err' = "ValueError" /\ cone_data' = << >>
                       \/ err' = "none" /\ cone_data' = primal_cone_data(m, U_I, expcovers, lifted_alpha, A_shape)
                  ELSE err' = "none" /\ cone_data' = primal_cone_data(m, U_I, expcovers, lifted_alpha, A_shape)
       ELSE /\ age_vectors' = age_vectors
            /\ err' = "none" /\ cone_data' = primal_cone_data(m, U_I, expcovers, lifted_alpha, A_shape)
    /\ UNCHANGED <<pc, objvars, cc, ret>>

(***************************************************************************)
(* DualCondSageCone.conic_form()                                           *)
(***************************************************************************)
DualConicForm ==
    /\ pc = "constructed" /\ kind = "dual"
    /\ \E r \in {dual_cone_data(m, U_I, P_I, expcovers, K)} :
        IF r.err # "none"
        THEN err' = r.err /\ cone_data' = << >>
        ELSE IF m > 1 /\ SetOf(U_I \o P_I) = {}
        \* self.v[[]] >= 0 compiles in a routine outside this file
        THEN \/ err' = "ValueError" /\ cone_data' = << >>
             \/ err' = "none" /\ cone_data' = r.blocks
        ELSE err' = "none" /\ cone_data' = r.blocks
    /\ UNCHANGED <<pc, objvars, cc, ret, age_vectors>>

(***************************************************************************)
(* PrimalCondSageCone.violation(norm_ord, rough)                           *)
(***************************************************************************)
c_values(cv) == {v \in [DOMAIN cv.expr -> Values \cup {cv.expr[i].offset : i \in DOMAIN cv.expr}] :
                    \A i \in DOMAIN cv.expr : is_constant(cv.expr[i]) => v[i] = cv.expr[i].offset}

OwnHelper == [U_I |-> U_I, N_I |-> N_I, P_I |-> P_I, expcovers |-> expcovers]

PrimalViolation ==
    /\ pc = "constructed" /\ kind = "primal"
    /\ \E cval \in c_values(c) : \E rough \in BOOLEAN :
       \E rin \in RoughInputs(m, U_I, age_vectors, rough) :
       \E pin \in ProjectInputs(m, lifted_alpha, cval, rough, rin) :
       \E r \in {primal_violation(m, U_I, expcovers, age_vectors, c_vars, lifted_alpha,
                                  OwnHelper, rough, cval, rin, pin)} :
            /\ ret' = [NoRet EXCEPT !.called = TRUE, !.err = r.err, !.value = r.value,
                                    !.c_value = cval, !.rough = rough, !.read = rin,
                                    !.solves = r.solves, !.temp_log = r.temp_log,
                                    !.proj = r.proj, !.by = r.by]
            /\ err' = r.err
            /\ U_I' = r.own.U_I /\ N_I' = r.own.N_I /\ P_I' = r.own.P_I
            /\ expcovers' = r.own.expcovers
    /\ pc' = "returned"
    /\ UNCHANGED <<kind, args, m, c, lifted_alpha, K, warnings, solver_log, A_shape,
                   nu_vars, c_vars, relent_epi_vars, lambda_vars, lifted_mu_vars,
                   cc, age_vectors, cone_data>>

\* the calls explored after every constructor call: those of the branch m = 1
DegenerateViolation == m = 1 /\ PrimalViolation

(***************************************************************************)
(* DualCondSageCone.violation(norm_ord, rough)                             *)
(***************************************************************************)
DualViolation ==
    /\ pc = "constructed" /\ kind = "dual"
    /\ \E v \in VVecs(m) : \E rough \in BOOLEAN :
       \E inp \in TermInputs(U_I, expcovers) :
       \E out \in [dual_solves(U_I, expcovers, rough, inp) -> FeasOutcomes] :
       \E r \in {dual_violation(m, U_I, expcovers, rough, inp, out)} :
            /\ ret' = [NoRet EXCEPT !.called = TRUE, !.err = r.err, !.value = r.value,
                                    !.rough = rough, !.v_value = v, !.read = inp,
                                    !.terms = r.terms,
                                    !.solves = Cardinality({i \in DOMAIN r.terms :
                                                              r.terms[i].solve.called})]
            /\ err' = r.err
    /\ pc' = "returned"
    /\ UNCHANGED <<objvars, cc, age_vectors, cone_data>>

\* the caller takes what violation() returned or raised and goes on
Resume ==
    /\ pc = "returned"
    /\ pc' = "constructed" /\ ret' = NoRet /\ err' = "none"
    /\ UNCHANGED <<objvars, cc, age_vectors, cone_data>>

Next == CheckCones \/ NewPrimal \/ NewDual \/ PrimalConicForm \/ DualConicForm
        \/ DegenerateViolation \/ Resume

Spec == Init /\ [][Next]_vars

NextViolation == NewPrimalForViolation \/ NewDualForViolation
                 \/ PrimalConicForm \/ DualConicForm
                 \/ PrimalViolation \/ DualViolation \/ Resume

SpecViolation == Init /\ [][NextViolation]_vars

(***************************************************************************)
(* Properties.                                                             *)
(***************************************************************************)
Constructed == pc \in {"constructed", "returned"}
Attempted == pc \in {"constructed", "failed"}
Terms == 0..m - 1
SuppliedDict == args.expcovers.tag = "dict"
DefaultCovers == args.expcovers.tag = "None"
AllFalse(mask) == \A j \in DOMAIN mask : ~mask[j]
Covers(i, j) == j \in DOMAIN expcovers[i] /\ expcovers[i][j]

\* the terms of the call's coefficient vector that must be certified
ArgTerms == DOMAIN args.alpha
ArgMustCertify ==
    {i \in ArgTerms : args.c.is_None \/ ~args.c.expr[i].const \/ args.c.expr[i].offset < 0}
ArgKSupported == \A k \in 1..Len(args.bg.K) : args.bg.K[k].type \in {"+", "S", "e", "0"}

\* C1: after every successful construction, with default covers or a
\* supplied cover map, expcovers[i][i] is False for every must-certify i.
C1_NoSelfCover ==
    Constructed =>
        \A i \in SetOf(U_I) :
            i \in DOMAIN expcovers /\ i \in DOMAIN expcovers[i] /\ ~expcovers[i][i]

\* a supplied map with a True self-cover entry was accepted and corrected
C1_Witness ==
    /\ Constructed /\ SuppliedDict /\ warnings > 0
    /\ \E i \in SetOf(U_I) : args.expcovers.d[i].mask[i] /\ ~expcovers[i][i]

\* C2 as stated: U_I, N_I and P_I are pairwise disjoint and their union is
\* all of 0..m-1.
C2_Original ==
    Constructed =>
        /\ SetOf(U_I) \cap SetOf(N_I) = {}
        /\ SetOf(U_I) \cap SetOf(P_I) = {}
        /\ SetOf(N_I) \cap SetOf(P_I) = {}
        /\ SetOf(U_I) \cup SetOf(N_I) \cup SetOf(P_I) = Terms

\* C2 amended: N_I is a subset of U_I, P_I is disjoint from U_I (hence from
\* N_I), and U_I union P_I is every index except those whose coefficient is
\* the constant 0.
C2_Amended ==
    Constructed =>
        /\ SetOf(N_I) \subseteq SetOf(U_I)
        /\ SetOf(U_I) \cap SetOf(P_I) = {}
        /\ SetOf(N_I) \cap SetOf(P_I) = {}
        /\ SetOf(U_I) \cup SetOf(P_I) =
              {i \in Terms : c.is_None \/ ~(c.expr[i].const /\ c.expr[i].offset = 0)}

\* all of the cases at once: a negative, a zero and a positive constant
C2_Witness ==
    /\ Constructed /\ ~c.is_None /\ m = 3
    /\ SetOf(N_I) # {} /\ SetOf(P_I) # {}
    /\ \E i \in Terms : c.expr[i].const /\ c.expr[i].offset = 0

\* C3: with a coefficient vector, i is in U_I iff c[i] is non-constant or a
\* negative constant, in N_I iff it is a negative constant, in P_I iff it is
\* a positive constant; with c = None, U_I is all of 0..m-1 and N_I, P_I
\* are empty.
C3_Classification ==
    Constructed =>
        IF c.is_None
        THEN SetOf(U_I) = Terms /\ N_I = << >> /\ P_I = << >>
        ELSE \A i \in Terms :
                /\ (i \in SetOf(U_I)) <=>
                        (~c.expr[i].const \/ (c.expr[i].const /\ c.expr[i].offset < 0))
                /\ (i \in SetOf(N_I)) <=> (c.expr[i].const /\ c.expr[i].offset < 0)
                /\ (i \in SetOf(P_I)) <=> (c.expr[i].const /\ c.expr[i].offset > 0)

\* a non-constant coefficient with a negative offset next to a negative constant
C3_Witness ==
    /\ Constructed /\ ~c.is_None
    /\ \E i, j \in Terms :
        /\ ~c.expr[i].const /\ c.expr[i].offset < 0 /\ i \in SetOf(U_I) /\ i \notin SetOf(N_I)
        /\ c.expr[j].const /\ c.expr[j].offset < 0 /\ j \in SetOf(N_I)

\* C4 as stated: for a primal compiler with m > 1 and every definite-negative
\* j, no must-certify i # j covers j, and once conic_form() has built the age
\* vectors, coordinate j is zero in every age vector but j's own, where it is
\* the coefficient c[j].
C4_NegativeOnlyInOwnCone ==
    (Constructed /\ kind = "primal" /\ m > 1) =>
        \A j \in SetOf(N_I) :
            /\ \A i \in SetOf(U_I) \ {j} : ~Covers(i, j)
            /\ \A i \in DOMAIN age_vectors :
                    age_vectors[i][j] = IF i = j THEN CoefEntry(j) ELSE ZeroEntry

\* C5: under default cover construction, for every term whose cover was
\* posed to the solver, the final cover is all False iff the solve returned
\* "solved" with a value below -100, and is the posed cover otherwise.
C5_TrivialElimination ==
    (Constructed /\ DefaultCovers) =>
        \A i \in DOMAIN solver_log :
            LET l == solver_log[i]
                hit == l.status = "solved" /\ l.value < -100
            IN /\ ~AllFalse(l.cover)
               /\ AllFalse(expcovers[i]) <=> hit
               /\ ~hit => expcovers[i] = l.cover

\* one cover emptied, one kept at the threshold, one kept after a failed solve
C5_Witness ==
    /\ Constructed /\ DefaultCovers
    /\ \E i, j, k \in DOMAIN solver_log :
        /\ solver_log[i].status = "solved" /\ solver_log[i].value = -101
        /\ AllFalse(expcovers[i])
        /\ solver_log[j].status = "solved" /\ solver_log[j].value = -100
        /\ ~AllFalse(expcovers[j])
        /\ solver_log[k].status = "failed" /\ solver_log[k].value = -101
        /\ ~AllFalse(expcovers[k])

ZeroRow(i) == \A k \in DOMAIN lifted_alpha[i] : lifted_alpha[i][k] = 0
Orthogonal(i, j) ==
    /\ ~ZeroRow(i) /\ ~ZeroRow(j)
    /\ Dot(lifted_alpha[i], lifted_alpha[j]) = 0
NonnegativeExponents ==
    \A i \in Terms : \A k \in DOMAIN lifted_alpha[i] : lifted_alpha[i][k] >= 0

\* C6 as stated: under default cover construction, if some row of alpha is
\* all zero and rows i, j are not all zero and have dot product 0, then the
\* cover of i excludes j and the cover of j excludes i.
C6_Original ==
    (Constructed /\ DefaultCovers /\ \E z \in Terms : ZeroRow(z)) =>
        \A i, j \in Terms :
            Orthogonal(i, j) =>
                /\ i \in SetOf(U_I) => ~expcovers[i][j]
                /\ j \in SetOf(U_I) => ~expcovers[j][i]

\* C6 amended: the same, provided every entry of alpha is >= 0.
C6_Amended ==
    (Constructed /\ DefaultCovers /\ NonnegativeExponents /\ \E z \in Terms : ZeroRow(z)) =>
        \A i, j \in Terms :
            Orthogonal(i, j) =>
                /\ i \in SetOf(U_I) => ~expcovers[i][j]
                /\ j \in SetOf(U_I) => ~expcovers[j][i]

\* two orthogonal must-certify rows that keep the zero row in their covers,
\* neither of them definite-negative
C6_Witness ==
    /\ Constructed /\ DefaultCovers /\ NonnegativeExponents
    /\ \E z, i, j \in Terms :
        /\ ZeroRow(z) /\ Orthogonal(i, j)
        /\ {i, j} \subseteq SetOf(U_I) /\ {i, j} \cap SetOf(N_I) = {}
        /\ expcovers[i][z] /\ expcovers[j][z]
        /\ ~expcovers[i][j] /\ ~expcovers[j][i]

\* C7 as stated: a construction with a supplied cover map succeeds only if
\* every must-certify index is a key whose value is a boolean mask of length m.
C7_SuppliedMasksHaveLengthM ==
    (Constructed /\ SuppliedDict) =>
        \A i \in SetOf(U_I) :
            /\ i \in DOMAIN args.expcovers.d
            /\ args.expcovers.d[i].bool_ndarray
            /\ Length(args.expcovers.d[i].mask) = m

MalformedCover ==
    \/ args.expcovers.tag \notin {"None", "dict"}
    \/ /\ SuppliedDict
       /\ \E i \in ArgMustCertify :
            \/ i \notin DOMAIN args.expcovers.d
            \/ ~args.expcovers.d[i].bool_ndarray

WellFormedCover ==
    /\ SuppliedDict
    /\ \A i \in ArgMustCertify :
        /\ i \in DOMAIN args.expcovers.d
        /\ args.expcovers.d[i].bool_ndarray
        /\ Length(args.expcovers.d[i].mask) = Cardinality(ArgTerms)

\* C8: a constructor call fails with an error whenever expcovers is neither
\* None nor a dict, or lacks a must-certify key, or maps one to a value that
\* is no boolean array; a supplied map of boolean masks of length m over
\* every must-certify key, self-covering or not, never makes it fail.
C8_MalformedCoverFails ==
    Attempted =>
        /\ MalformedCover => (pc = "failed" /\ err # "none" /\ U_I = << >> /\ m = 0)
        /\ (WellFormedCover /\ ArgKSupported) => pc = "constructed"

\* every key is there and one value is not a boolean array
C8_Witness ==
    /\ pc = "failed" /\ err = "RuntimeError" /\ SuppliedDict
    /\ ArgMustCertify \subseteq DOMAIN args.expcovers.d
    /\ \E i \in ArgMustCertify : ~args.expcovers.d[i].bool_ndarray

\* C9: check_cones(K) raises iff some block of K has a type outside
\* {'+', 'S', 'e', '0'}; otherwise it returns a list of the same length whose
\* blocks have the types and sizes of K's; it leaves K as it was.  No
\* compiler is constructed over a K with an unsupported type.
C9_CheckCones ==
    /\ cc.called =>
        /\ cc.K_after = cc.K_in
        /\ IF \E k \in 1..Len(cc.K_in) : cc.K_in[k].type \notin {"+", "S", "e", "0"}
           THEN cc.err = "NotImplementedError" /\ pc = "checked" /\ cc.newK = << >>
           ELSE /\ cc.err = "none"
                /\ Len(cc.newK) = Len(cc.K_in)
                /\ \A k \in 1..Len(cc.K_in) :
                    cc.newK[k].type = cc.K_in[k].type /\ cc.newK[k].len = cc.K_in[k].len
    /\ Attempted => (ArgKSupported <=> ~(pc = "failed" /\ err = "NotImplementedError"))
    /\ Constructed => (ArgKSupported /\ Len(K) = Len(args.bg.K))

\* a list whose first block is supported and whose second is not
C9_Witness ==
    /\ cc.called /\ cc.err = "NotImplementedError" /\ Len(cc.K_in) = 2
    /\ cc.K_in[1].type \in ALLOWED_CONES /\ cc.K_in[2].type \notin ALLOWED_CONES

\* C10: for m = 1 the primal violation is the size of the negative part of
\* c: 0 when c >= 0, and -c > 0 when c < 0.
C10_DegenerateViolation ==
    (ret.called /\ m = 1) =>
        LET c0 == ret.c_value[0]
        IN /\ c0 >= 0 => ret.value = 0
           /\ c0 < 0 => (ret.value = -c0 /\ ret.value > 0)

\* coefficient 2 gives violation 0
C10_Witness ==
    /\ ret.called /\ m = 1 /\ c.expr[0] = Coef(TRUE, 2)
    /\ ret.c_value[0] = 2 /\ ret.value = 0

\* the last violation() call returned (it did not raise)
Returned == pc = "returned" /\ ret.called /\ ret.err = "none"

\* C11: for m = 1 the dual violation() is 0 if and only if v >= 0: it is
\* strictly positive for a negative v, as the single constraint v >= 0 of the
\* dual conic_form() requires.
C11_DegenerateDualViolation ==
    (Returned /\ kind = "dual" /\ m = 1) =>
        /\ ret.v_value[0] >= 0 => ret.value = 0
        /\ ret.v_value[0] < 0 => ret.value > 0

\* the must-certify terms in the order conic_form() visits them
Increasing(U) == \A k, l \in 1..Len(U) : k < l => U[k] < U[l]

\* C12: the primal conic_form() returns one block (c >= 0) for m = 1; for
\* m > 1 it returns 3 * |U_I| + 1 blocks: per must-certify i, in increasing
\* order, the relative entropy block of i (a linear inequality when the
\* cover of i is empty), the linear equality block of i and the domain block
\* of lambda_i, and last the one block "age vectors sum to c".
C12_PrimalBlocks ==
    (kind = "primal" /\ cone_data # << >>) =>
        IF m = 1 THEN cone_data = <<[b |-> "c_nonneg", i |-> -1]>>
        ELSE /\ Len(cone_data) = 3 * Len(U_I) + 1
             /\ Increasing(U_I)
             /\ \A k \in 1..Len(U_I) :
                  /\ cone_data[3 * k - 2] =
                        [b |-> IF \E j \in DOMAIN expcovers[U_I[k]] : expcovers[U_I[k]][j]
                               THEN "rel_ent" ELSE "lin_ineq",
                         i |-> U_I[k]]
                  /\ cone_data[3 * k - 1].b = "lin_eq" /\ cone_data[3 * k - 1].i = U_I[k]
                  /\ cone_data[3 * k] = [b |-> "lambda_dom", i |-> U_I[k]]
             /\ cone_data[Len(cone_data)] = [b |-> "sum_to_c", i |-> -1]
             /\ \A k \in 1..Len(cone_data) - 1 : cone_data[k].b # "sum_to_c"

\* three terms compiled, one with an empty and one with a nonempty cover
C12_Witness ==
    /\ kind = "primal" /\ m = 3 /\ Len(U_I) = 3 /\ Len(cone_data) = 10
    /\ \E i, j \in SetOf(U_I) : AllFalse(expcovers[i]) /\ ~AllFalse(expcovers[j])

\* where the blocks of the k-th must-certify term start in the dual cone data
DualOffset(k) ==
    1 + SumSeq([l \in 1..k - 1 |-> IF AllFalse(expcovers[U_I[l]]) THEN 1 ELSE 3])

\* C13: the dual conic_form() with m > 1 returns first one nonnegativity
\* block over exactly the indices of U_I and P_I (an index whose coefficient
\* is the constant 0 is not constrained), then per must-certify i, in order,
\* three blocks if the cover of i is nonempty (elementwise relative entropy,
\* linear inequality, background) and one block if it is empty: the
\* background block, whose cone list equals K in type, size and order.
C13_DualBlocks ==
    (kind = "dual" /\ m > 1 /\ cone_data # << >>) =>
        /\ cone_data[1].b = "v_nonneg"
        /\ cone_data[1].over = SetOf(U_I) \cup SetOf(P_I)
        /\ \A i \in Terms :
              (~c.is_None /\ c.expr[i].const /\ c.expr[i].offset = 0)
                  => i \notin cone_data[1].over
        /\ Len(cone_data) = DualOffset(Len(U_I) + 1)
        /\ \A k \in 2..Len(cone_data) : cone_data[k].b # "v_nonneg"
        /\ \A k \in 1..Len(U_I) :
              LET o == DualOffset(k)
                  i == U_I[k]
                  IsBackground(blk) ==
                      /\ blk.b = "background" /\ blk.i = i
                      /\ Len(blk.K) = Len(K)
                      /\ \A n \in 1..Len(K) :
                            blk.K[n].type = K[n].type /\ blk.K[n].len = K[n].len
              IN IF AllFalse(expcovers[i])
                 THEN IsBackground(cone_data[o + 1])
                 ELSE /\ cone_data[o + 1].b = "elementwise_relent" /\ cone_data[o + 1].i = i
                      /\ cone_data[o + 2].b = "lin_ineq" /\ cone_data[o + 2].i = i
                      /\ IsBackground(cone_data[o + 3])

\* a term with an empty cover between terms with nonempty covers, over a
\* background system of two cones
C13_Witness ==
    /\ kind = "dual" /\ m = 3 /\ Len(K) = 2 /\ cone_data # << >> /\ ~c.is_None
    /\ \E k \in 1..Len(U_I) - 1 :
          AllFalse(expcovers[U_I[k]]) /\ ~AllFalse(expcovers[U_I[k + 1]])
    /\ \E i \in Terms : c.expr[i].const /\ c.expr[i].offset = 0

\* C14: after construction, no conic_form() or violation() call, rough or
\* exact, with the solver calls it triggers, changes the term classification
\* U_I, N_I, P_I or any entry of the cover map expcovers.
C14_HelperFrame ==
    [][Constructed => UNCHANGED <<U_I, N_I, P_I, expcovers>>]_vars

\* an exact violation() after conic_form() whose temporary compiler lost a
\* cover to the solver while the compiler's own covers are still nonempty
C14_Witness ==
    /\ Returned /\ kind = "primal" /\ m > 1 /\ ~ret.rough /\ age_vectors # EmptyMap
    /\ ret.proj.called
    /\ \E i \in DOMAIN ret.temp_log :
          ret.temp_log[i].status = "solved" /\ ret.temp_log[i].value < TrivialThreshold
    /\ \E i \in SetOf(U_I) : ~AllFalse(expcovers[i])
    /\ Len(U_I) < m

\* C15 as stated: an exact-violation solve that fails never determines the
\* reported violation, neither in the primal projection nor in the dual
\* per-term refinement: what is reported is the value computed before it.
C15_FailedSolveIgnored ==
    Returned =>
        /\ \A i \in DOMAIN ret.terms :
              (ret.terms[i].solve.called /\ ret.terms[i].solve.status # "solved")
                  => ret.terms[i].viol = ret.terms[i].rough_viol
        /\ (ret.proj.called /\ ret.proj.status # "solved")
              => ret.by \notin {"projection", "rough+projection"}

\* C16 as stated: an exact primal violation() with m > 1 and a negative
\* entry of c invokes the solver exactly once.
ExactProjection ==
    /\ Returned /\ kind = "primal" /\ m > 1 /\ ~ret.rough
    /\ \E i \in DOMAIN ret.c_value : ret.c_value[i] < 0

C16_Original == ExactProjection => ret.solves = 1

\* C16 amended: such a call solves the projection problem exactly once; the
\* only other solver calls are the elimination solves made while the
\* temporary compiler is constructed, one per term, m in all.
C16_Amended ==
    ExactProjection =>
        /\ ret.proj.called
        /\ DOMAIN ret.temp_log = Terms
        /\ ret.solves = m + 1

\* an exact violation of a two-term compiler: three solver calls
C16_Witness == ExactProjection /\ m = 2 /\ ret.solves = 3 /\ ret.proj.status = "solved"

\* C17 as stated: for every must-certify i, whatever its cover, the rough
\* dual violation of the term is the clipped relative entropy residual plus
\* the distance of A mu_i + v_i b from K, hence strictly positive when
\* A mu_i + v_i b lies outside K.
C17_RoughDualTerm ==
    (Returned /\ kind = "dual" /\ ret.rough) =>
        \A i \in SetOf(U_I) :
            /\ ret.terms[i].viol = ret.read[i].relent + ret.read[i].AbK
            /\ ret.read[i].AbK > 0 => ret.terms[i].viol > 0

\* C18 as stated: for every construction, the dual violation() invokes the
\* solver for a term only if its rough violation r is positive and exact
\* mode is requested, the term's violation is 0 iff that solve returns
\* 'solved' with |value| < 1e-7 and else stays r, and the call returns the
\* maximum of the per-term violations over the must-certify terms.
C18_DualRefinement ==
    (pc = "returned" /\ kind = "dual" /\ ret.called) =>
        /\ ret.err = "none"
        /\ \A i \in SetOf(U_I) :
              LET t == ret.terms[i]
                  r == t.rough_viol
                  accepted == /\ t.solve.called /\ t.solve.status = "solved"
                              /\ AbsVal(t.solve.value) < FeasTol
              IN /\ t.solve.called => (r > 0 /\ ~ret.rough)
                 /\ accepted => t.viol = 0
                 /\ ~accepted => t.viol = r
        /\ \A i \in SetOf(U_I) : ret.terms[i].viol <= ret.value
        /\ \E i \in SetOf(U_I) : ret.terms[i].viol = ret.value

\* the cover of i before either reduction, as C19 states it
FullCover(i) == {j \in Terms : j # i /\ j \notin SetOf(N_I)}
CoverSet(mask) == {j \in DOMAIN mask : mask[j]}
ReductionApplicable == NonnegativeExponents /\ \E z \in Terms : ZeroRow(z)
SolveHit(i) ==
    /\ i \in DOMAIN solver_log
    /\ solver_log[i].status = "solved" /\ solver_log[i].value < TrivialThreshold

\* C19: before either reduction the default cover of a must-certify i is
\* every j other than i that is not definite-negative; so the final default
\* cover of i is a subset of that set, and is that set whenever the
\* aggressive reduction is inapplicable and the solve for i does not return
\* 'solved' with a value below -100.
C19_DefaultCover ==
    (Constructed /\ DefaultCovers) =>
        \A i \in SetOf(U_I) :
            /\ DOMAIN expcovers[i] = Terms
            /\ CoverSet(expcovers[i]) \subseteq FullCover(i)
            /\ (~ReductionApplicable /\ ~SolveHit(i)) => CoverSet(expcovers[i]) = FullCover(i)
            /\ (~ReductionApplicable /\ i \in DOMAIN solver_log)
                  => CoverSet(solver_log[i].cover) = FullCover(i)

\* no reduction applies (a negative exponent), a definite-negative term is
\* left out of a cover that is kept in full, and another cover is emptied
C19_Witness ==
    /\ Constructed /\ DefaultCovers /\ m = 3 /\ ~ReductionApplicable
    /\ SetOf(N_I) # {}
    /\ \E i, l \in SetOf(U_I) :
          /\ ~SolveHit(i) /\ CoverSet(expcovers[i]) = FullCover(i)
          /\ FullCover(i) # {} /\ FullCover(i) # Terms \ {i}
          /\ SolveHit(l) /\ CoverSet(expcovers[l]) = {}

\* the first all-zero row
FirstZeroRow == CHOOSE z \in Terms : ZeroRow(z) /\ \A y \in Terms : ZeroRow(y) => z <= y

\* the cover of i after the aggressive reduction, as C20 states it
ReducedCover(i) ==
    IF ReductionApplicable /\ i # FirstZeroRow
    THEN {j \in FullCover(i) :
            ~(j # FirstZeroRow /\ Dot(lifted_alpha[i], lifted_alpha[j]) = 0)}
    ELSE FullCover(i)

\* the cover of i after the aggressive reduction, as the constructor left
\* it: the cover posed to the solver or, when none was posed, an empty cover
PosedCover(i) ==
    IF i \in DOMAIN solver_log THEN CoverSet(solver_log[i].cover) ELSE {}

\* C20: the aggressive reduction changes covers only when every exponent is
\* >= 0 and some row is all zero; then, with z the first all-zero row, for a
\* must-certify i other than z a covered j is dropped iff j is not z and
\* alpha_i . alpha_j = 0 (a further all-zero row is dropped from the cover
\* of every such i, and an i that is a further all-zero row keeps at most
\* z); the cover of z, and every cover when the condition fails, is unchanged.
C20_AggressiveReduction ==
    (Constructed /\ DefaultCovers) =>
        \A i \in SetOf(U_I) :
            /\ PosedCover(i) = ReducedCover(i)
            /\ i \notin DOMAIN solver_log => CoverSet(expcovers[i]) = {}
            /\ (ReductionApplicable /\ i # FirstZeroRow) =>
                  /\ \A j \in Terms \ {FirstZeroRow} : ZeroRow(j) => j \notin PosedCover(i)
                  /\ ZeroRow(i) => PosedCover(i) \subseteq {FirstZeroRow}
            /\ (~ReductionApplicable \/ i = FirstZeroRow) => PosedCover(i) = FullCover(i)

\* two all-zero rows: the cover of the first keeps the second, the second
\* keeps only the first, and a third term lost the second to the reduction
C20_Witness ==
    /\ Constructed /\ DefaultCovers /\ m = 3 /\ ReductionApplicable /\ Len(U_I) = 3
    /\ \E j \in Terms \ {FirstZeroRow} :
          /\ ZeroRow(j)
          /\ j \in PosedCover(FirstZeroRow)
          /\ PosedCover(j) = {FirstZeroRow}
          /\ \E i \in Terms \ {FirstZeroRow, j} :
                j \notin PosedCover(i) /\ FirstZeroRow \in PosedCover(i)

\* C21: after construction of a primal compiler with m > 1, for every
\* must-certify i, lambda[i] (of length d, the rows of A) and c_var[i] exist;
\* nu[i] and relent_epi[i] exist iff the cover of i is nonempty and then have
\* length |cover(i)|; c_var[i] has length |cover(i)| if i is
\* definite-negative and |cover(i)| + 1 otherwise.  nu_vars and
\* relent_epi_vars always have the same keys, and for m = 1 there are no
\* per-term variables.
C21_PrimalVariables ==
    (Constructed /\ kind = "primal") =>
        /\ DOMAIN nu_vars = DOMAIN relent_epi_vars
        /\ IF m > 1
           THEN /\ DOMAIN lambda_vars = SetOf(U_I)
                /\ DOMAIN c_vars = SetOf(U_I)
                /\ DOMAIN nu_vars = {i \in SetOf(U_I) : ~AllFalse(expcovers[i])}
                /\ \A i \in SetOf(U_I) :
                      LET size == Cardinality({j \in DOMAIN expcovers[i] : expcovers[i][j]})
                      IN /\ lambda_vars[i] = args.bg.A_shape[1]
                         /\ i \in DOMAIN nu_vars =>
                               nu_vars[i] = size /\ relent_epi_vars[i] = size
                         /\ c_vars[i] = IF i \in SetOf(N_I) THEN size ELSE size + 1
           ELSE /\ nu_vars = EmptyMap /\ relent_epi_vars = EmptyMap
                /\ c_vars = EmptyMap /\ lambda_vars = EmptyMap

\* four rows of A; a definite-negative term with a nonempty cover, a term
\* with an empty cover and a term that is not definite-negative
C21_Witness ==
    /\ Constructed /\ kind = "primal" /\ m = 3 /\ args.bg.A_shape[1] = 4
    /\ \E i \in SetOf(N_I) : c_vars[i] > 0 /\ i \in DOMAIN nu_vars
    /\ \E i \in SetOf(U_I) : i \notin DOMAIN nu_vars
    /\ \E i \in SetOf(U_I) \ SetOf(N_I) : i \in DOMAIN nu_vars /\ c_vars[i] = nu_vars[i] + 1

\* C22: the linear equality block of a must-certify term i of the primal
\* compiler has an offset vector and a single zero cone of size lifted_n,
\* the number of columns of A, which is the number of scalar equations of
\* (alpha_cover - alpha_i)^T nu_i - A^T lambda_i = 0, whether the cover of i
\* is empty or not.
C22_LinEqBlockSize ==
    (kind = "primal" /\ m > 1 /\ cone_data # << >>) =>
        \A k \in 1..Len(cone_data) :
            cone_data[k].b = "lin_eq" =>
                /\ cone_data[k].offset_len = A_shape[2]
                /\ cone_data[k].K = <<[type |-> "0", len |-> A_shape[2]]>>

\* a step of a primal compiler with m > 1, from construction on
C23_Step ==
    (kind' = "primal" /\ m' > 1) =>
        \* construction leaves age_vectors empty
        /\ pc = "start" => (age_vectors' = EmptyMap /\ cone_data' = << >>)
        \* a conic_form() call that returns stores one vector per term of U_I
        /\ (pc = "constructed" /\ pc' = "constructed" /\ err' = "none")
              => (DOMAIN age_vectors' = SetOf(U_I) /\ cone_data' # << >>)
        \* nothing else writes age_vectors
        /\ (pc # "start" /\ ~(pc = "constructed" /\ pc' = "constructed"))
              => (age_vectors' = age_vectors /\ cone_data' = cone_data)
        \* violation(rough=True) returns a value only after a conic_form()
        \* call has returned
        /\ (pc = "constructed" /\ pc' = "returned" /\ ret'.rough /\ ret'.err = "none")
              => (cone_data # << >> /\ DOMAIN age_vectors = SetOf(U_I))

\* C23: for a primal compiler with m > 1, age_vectors is empty from
\* construction until the first conic_form() call, and after every
\* conic_form() call its keys are exactly U_I; so violation(rough=True)
\* returns a value only if conic_form() was called before, and called before
\* any conic_form() it ends in an error.
C23_AgeVectorsOrdering == [][C23_Step]_vars

\* a rough violation that returned a number, after conic_form()
C23_Witness ==
    /\ Returned /\ kind = "primal" /\ m > 1 /\ ret.rough
    /\ U_I # << >> /\ DOMAIN age_vectors = SetOf(U_I) /\ ret.value > 0

\* C24: the exact primal violation does not depend on the compiler's own
\* cover map or sign classification: it is 0, with nothing built and no
\* solver call, when every entry of c is >= 0; otherwise a fresh compiler
\* over a free vector is built with default covers (all m terms
\* must-certify, none definite-negative, one elimination solve each) and
\* the value is the projection solve's, so compilers that differ only in a
\* supplied expcovers report the same value for the same c and the same
\* solver answers.
C24_ExactIndependentOfCovers ==
    (Returned /\ kind = "primal" /\ m > 1 /\ ~ret.rough) =>
        IF \A i \in Terms : ret.c_value[i] >= 0
        THEN /\ ret.value = 0 /\ ret.solves = 0
             /\ ~ret.proj.called /\ ret.temp_log = EmptyMap
        ELSE /\ ret.proj.called /\ ret.value = ret.proj.value
             /\ DOMAIN ret.temp_log = Terms
             /\ ret.solves = Cardinality(Terms) + 1

\* a compiler whose supplied covers are all empty and one of whose terms is
\* definite-negative reports the projection solve's value
C24_Witness ==
    /\ Returned /\ kind = "primal" /\ m > 1 /\ ~ret.rough /\ SuppliedDict
    /\ \A i \in SetOf(U_I) : AllFalse(expcovers[i])
    /\ SetOf(N_I) # {} /\ Len(U_I) < m
    /\ ret.proj.called /\ ret.value = ret.proj.value /\ ret.value > 0

====
